---- MODULE Spec2Model ----
(***************************************************************************)
(* Model of app.py: the CSV -> Shopify bulk importer.                      *)
(*                                                                         *)
(* State: the uploaded inputs (CSV columns and text cells, the image       *)
(* index built from the zip, the sidebar's "Max immagini per prodotto"),   *)
(* the position of the main loop, the result log, and the state of the     *)
(* remote call in flight: tenacity's attempt number and the remaining      *)
(* budget of the urllib3 Retry object mounted on the requests session.     *)
(*                                                                         *)
(* Strings are sequences of one-character strings.  A DataFrame cell is a  *)
(* record [na, str]: pandas reads an empty CSV field as NaN.               *)
(***************************************************************************)
EXTENDS Integers, Sequences, FiniteSets, TLC

VARIABLES
    df_columns,              \* columns present in the uploaded CSV
    csv_rows,                \* the CSV's data lines, text cells per column
    image_index,             \* filenames of the zip index, in dict order
    max_images_per_product,  \* sidebar number_input
    pc,                      \* "loop" | "create" | "seo" | "attach" | "done" | "aborted"
    i,                       \* 1-based position of the row being processed
    logs,                    \* the result log
    images_found,            \* images selected for the current row
    product_id,              \* prod.get("id") of the current row: "None" or "id"
    img,                     \* 1-based position in images_found of the image being attached
    attached,                \* counter of successful attach_image calls of the row
    attempt,                 \* tenacity attempt_number of the call in flight, 0 if none
    retry_total,             \* urllib3 Retry.total left for the session call in flight
    call,                    \* the latest HTTP request of the iteration, by the call it belongs to
    called,                  \* rows for which some HTTP request was sent
    raised                   \* exception that left the script, "none" if none

vars == <<df_columns, csv_rows, image_index, max_images_per_product, pc, i, logs,
          images_found, product_id, img, attached, attempt, retry_total, call, called,
          raised>>

inputs == <<df_columns, csv_rows, image_index, max_images_per_product>>

-----------------------------------------------------------------------------
(* Bounds of the model *)

MaxRows == 2
MaxImagesCfg == 1

-----------------------------------------------------------------------------
(* Program constants *)

StopAfterAttempt == 4
RetryTotal == 5
StatusForcelist == {429, 500, 502, 503, 504}

-----------------------------------------------------------------------------
(* Strings *)

Whitespace == {" "}

LowerOf == ("M" :> "m") @@ ("A" :> "a") @@ ("B" :> "b")

Lower(c) == IF c \in DOMAIN LowerOf THEN LowerOf[c] ELSE c

\* str.lower()
LowerStr(s) == [k \in 1..Len(s) |-> Lower(s[k])]

RECURSIVE LStrip(_, _)
LStrip(s, chars) ==
    IF s # <<>> /\ Head(s) \in chars THEN LStrip(Tail(s), chars) ELSE s

RECURSIVE RStrip(_, _)
RStrip(s, chars) ==
    IF s # <<>> /\ s[Len(s)] \in chars
    THEN RStrip(SubSeq(s, 1, Len(s) - 1), chars)
    ELSE s

\* str.strip()
Strip(s) == RStrip(LStrip(s, Whitespace), Whitespace)

\* k in fname
Contains(k, fname) ==
    \E j \in 1..(Len(fname) - Len(k) + 1) : SubSeq(fname, j, j + Len(k) - 1) = k

\* characters the slug keeps: [a-zA-Z0-9-]
SlugChars == {"a", "b", "g", "m", "n", "s", "u", "x", "1", "-",
              "A", "B", "M"}

\* re.sub(r"[^a-zA-Z0-9-]+", "-", value): a run of other characters becomes one hyphen
RECURSIVE SubNonSlug(_, _)
SubNonSlug(s, inRun) ==
    IF s = <<>> THEN <<>>
    ELSE IF Head(s) \in SlugChars THEN <<Head(s)>> \o SubNonSlug(Tail(s), FALSE)
    ELSE IF inRun THEN SubNonSlug(Tail(s), TRUE)
    ELSE <<"-">> \o SubNonSlug(Tail(s), TRUE)

\* re.sub(r"-+", "-", value)
RECURSIVE CollapseHyphens(_, _)
CollapseHyphens(s, inRun) ==
    IF s = <<>> THEN <<>>
    ELSE IF Head(s) # "-" THEN <<Head(s)>> \o CollapseHyphens(Tail(s), FALSE)
    ELSE IF inRun THEN CollapseHyphens(Tail(s), TRUE)
    ELSE <<"-">> \o CollapseHyphens(Tail(s), TRUE)

slugify(value) ==
    LET subbed   == SubNonSlug(LowerStr(value), FALSE)
        stripped == RStrip(LStrip(subbed, {"-"}), {"-"})
    IN  CollapseHyphens(stripped, FALSE)

-----------------------------------------------------------------------------
(* The DataFrame: pd.read_csv and row.get *)

Columns == {"Titolo Prodotto", "SKU", "Titolo della pagina", "Meta descrizione",
            "Handle URL"}

NaN == [na |-> TRUE, str |-> <<>>]

Text(s) == [na |-> FALSE, str |-> s]

\* pd.read_csv: an empty field is a missing value (NaN), any other text is kept
read_csv(field) == IF field = <<>> THEN NaN ELSE Text(field)

\* row.get(col, ""): the cell, or the default when the CSV has no such column
RowGet(r, col) ==
    IF col \in df_columns THEN read_csv(csv_rows[r][col]) ELSE Text(<<>>)

\* str(v): str(float("nan")) is "nan"
Str(v) == IF v.na THEN <<"n", "a", "n">> ELSE v.str

\* v or "": NaN is truthy, only the empty string is falsy
OrEmpty(v) == IF v.na \/ v.str # <<>> THEN v ELSE Text(<<>>)

Title(r)    == Strip(Str(RowGet(r, "Titolo Prodotto")))
Sku(r)      == Strip(Str(RowGet(r, "SKU")))
SeoTitle(r) == Strip(Str(OrEmpty(RowGet(r, "Titolo della pagina"))))
SeoDesc(r)  == Strip(Str(OrEmpty(RowGet(r, "Meta descrizione"))))

\* None is the empty string here: both are falsy wherever handle is read
Handle(r) ==
    LET h == Strip(Str(OrEmpty(RowGet(r, "Handle URL"))))
    IN  IF h # <<>> THEN h
        ELSE IF Title(r) # <<>> THEN slugify(Title(r)) ELSE <<>>

-----------------------------------------------------------------------------
(* Image matching *)

find_images_for_product(index, keys) ==
    LET ks == {LowerStr(keys[k]) : k \in {n \in 1..Len(keys) : keys[n] # <<>>}}
        Matches(fname) == \E k \in ks : Contains(k, fname)
    IN  SelectSeq(index, Matches)

\* if max_images_per_product and len(images_found) > max_images_per_product
Truncate(found, max) ==
    IF max # 0 /\ Len(found) > max THEN SubSeq(found, 1, max) ELSE found

Keys(r) == SelectSeq(<<Sku(r), Handle(r)>>, LAMBDA k : k # <<>>)

\* the full list of containment-matched images of row r
Matched(r) ==
    IF image_index # <<>> THEN find_images_for_product(image_index, Keys(r)) ELSE <<>>

ImagesFound(r) ==
    IF image_index # <<>>
    THEN Truncate(find_images_for_product(image_index, Keys(r)), max_images_per_product)
    ELSE <<>>

\* update["product"] is non-empty
SeoPayloadNonEmpty(r) == SeoTitle(r) # <<>> \/ SeoDesc(r) # <<>>

-----------------------------------------------------------------------------
(* Inputs the model draws from *)

\* the CSV has every expected column, or lacks the title column
ColumnChoices ==
    { Columns,
      Columns \ {"Titolo Prodotto"} }

Cells(title, sku, seo_title, seo_desc, handle) ==
    [c \in Columns |->
        CASE c = "Titolo Prodotto"     -> title
          [] c = "SKU"                 -> sku
          [] c = "Titolo della pagina" -> seo_title
          [] c = "Meta descrizione"    -> seo_desc
          [] OTHER                     -> handle]

\* a product with SKU and SEO title; an empty title field; a blank title field
CsvRowChoices ==
    { Cells(<<"M", " ", "g">>, <<"M", "1">>, <<"s">>, <<" ">>, <<" ">>),
      Cells(<<>>,              <<"x">>,      <<" ">>, <<" ">>, <<"m", "u", "g">>),
      Cells(<<" ">>,           <<>>,         <<"s">>, <<" ">>, <<" ">>) }

RECURSIVE SeqsUpTo(_, _)
SeqsUpTo(S, n) ==
    IF n = 0 THEN {<<>>}
    ELSE LET shorter == SeqsUpTo(S, n - 1)
         IN  shorter \cup {Append(q, x) : q \in shorter, x \in S}

\* lowercased base filenames with a supported extension, in the zip's order
IndexChoices ==
    { <<>>,
      << <<"m", "1", ".", "j", "p", "g">>,
         <<"x", ".", "p", "n", "g">>,
         <<"m", "1", "-", "b", ".", "j", "p", "g">> >> }

\* what one HTTP request can meet: a network-level error, or a response with a status
Responses ==
    { [net |-> TRUE,  status |-> 0,   has_id |-> FALSE],
      [net |-> FALSE, status |-> 200, has_id |-> TRUE],
      [net |-> FALSE, status |-> 200, has_id |-> FALSE],
      [net |-> FALSE, status |-> 422, has_id |-> FALSE],
      [net |-> FALSE, status |-> 500, has_id |-> FALSE] }

NoCall == [kind |-> "none", row |-> -1, img |-> 0, http |-> 0,
           result |-> "none", pid |-> "None", status |-> 0]

Init ==
    /\ df_columns \in ColumnChoices
    /\ csv_rows \in SeqsUpTo(CsvRowChoices, MaxRows)
    /\ image_index \in IndexChoices
    /\ max_images_per_product \in 0..MaxImagesCfg
    /\ pc = "loop"
    /\ i = 0
    /\ logs = <<>>
    /\ images_found = <<>>
    /\ product_id = "None"
    /\ img = 0
    /\ attached = 0
    /\ attempt = 0
    /\ retry_total = 0
    /\ call = NoCall
    /\ called = {}
    /\ raised = "none"

-----------------------------------------------------------------------------
(* The requests session: HTTPAdapter(max_retries=Retry(total=5, ...)) under   *)
(* api_post / api_put                                                        *)

\* Retry.is_retry for POST and PUT, and urllib3's retry of connection errors
TransportRetries(resp) == resp.net \/ resp.status \in StatusForcelist

\* Retry.increment(...).is_exhausted(): the budget left after this failure is below 0
Exhausted(tot) == tot - 1 < 0

\* What one HTTP request does to the session call it belongs to:
\*   "resend"          urllib3 sends the request again
\*   "ok"              api_post / api_put returns resp.json()
\*   "ShopifyError"    api_post / api_put raises on status >= 400
\*   "RetryError"      requests raises on an exhausted status retry
\*   "ConnectionError" requests raises on an exhausted connection retry
Outcome(resp, tot) ==
    IF TransportRetries(resp)
    THEN IF Exhausted(tot)
         THEN IF resp.net THEN "ConnectionError" ELSE "RetryError"
         ELSE "resend"
    ELSE IF resp.status >= 400 THEN "ShopifyError" ELSE "ok"

\* tenacity: retry_if_exception_type(ShopifyError), stop_after_attempt(4), reraise
TenacityRetries(outcome, att) == outcome = "ShopifyError" /\ att < StopAfterAttempt

\* requests are counted up to one more than tenacity's attempts
HttpCap == StopAfterAttempt + 1

\* the record of the latest HTTP request, by the call it belongs to: the call's kind,
\* row and image, the requests it has sent so far, the product id it was given, the
\* status it last met, and its result ("pending" while it may still send another)
Sent(kind, k, pid, resp, result) ==
    LET same == call.kind = kind /\ call.row = i /\ call.img = k
                /\ call.result = "pending"
        http == IF same THEN call.http + 1 ELSE 1
    IN  [kind |-> kind, row |-> i, img |-> k,
         http |-> IF http > HttpCap THEN HttpCap ELSE http,
         result |-> result, pid |-> pid, status |-> resp.status]

-----------------------------------------------------------------------------
(* Log records.  title and sku are functions of the row and are left out;  *)
(* error is the status the ShopifyError message carries within the slice  *)
(* str(e)[:300] or str(e)[:500] that is logged.                           *)

SkippedEntry(row) == [row |-> row, status |-> "skipped"]

ErrorEntry(row, status) == [row |-> row, status |-> "error", error |-> status]

ImageErrorEntry(row, pid, fname, status) ==
    [row |-> row, status |-> "image_error", product_id |-> pid,
     error |-> status, filename |-> fname]

CreatedEntry(row, pid, n) ==
    [row |-> row, status |-> "created", product_id |-> pid, images_attached |-> n]

-----------------------------------------------------------------------------
(* The main loop *)

\* the script's exception handlers do not catch it: the run ends here
Abort(exc) ==
    /\ pc' = "aborted"
    /\ raised' = exc
    /\ UNCHANGED <<i, logs, img, attached, attempt, retry_total>>

\* urllib3 sends the request of the session call in flight again
Resend ==
    /\ retry_total' = retry_total - 1
    /\ UNCHANGED <<pc, i, logs, img, attached, attempt, raised>>

\* tenacity calls api_post again: a new session call with a fresh Retry budget
Reattempt ==
    /\ attempt' = attempt + 1
    /\ retry_total' = RetryTotal
    /\ UNCHANGED <<pc, i, logs, img, attached, raised>>

\* the row's created record, then progress and the next iteration
FinishRow(lg, pid, n) ==
    /\ logs' = Append(lg, CreatedEntry(i, pid, n))
    /\ i' = i + 1
    /\ pc' = "loop"
    /\ attempt' = 0
    /\ retry_total' = 0
    /\ img' = img

\* for img in images_found: the k-th iteration, or the end of the loop
NextImage(k, lg, pid, n) ==
    /\ attached' = n
    /\ raised' = raised
    /\ IF k <= Len(images_found)
       THEN /\ pc' = "attach"
            /\ img' = k
            /\ attempt' = 1
            /\ retry_total' = RetryTotal
            /\ logs' = lg
            /\ i' = i
       ELSE FinishRow(lg, pid, n)

\* an iteration of  for i, row in df.iterrows()  up to the call of create_product
StartRow ==
    /\ pc = "loop"
    /\ i < Len(csv_rows)
    /\ IF Title(i + 1) = <<>>
       THEN /\ logs' = Append(logs, SkippedEntry(i))
            /\ i' = i + 1
            /\ UNCHANGED <<pc, images_found, attempt, retry_total>>
       ELSE /\ images_found' = ImagesFound(i + 1)
            /\ pc' = "create"
            /\ attempt' = 1
            /\ retry_total' = RetryTotal
            /\ UNCHANGED <<i, logs>>
    /\ call' = NoCall
    /\ UNCHANGED <<inputs, product_id, img, attached, called, raised>>

\* the create failure is swallowed: no error record is written for the row
OnCreateFailed_NoLog(status) ==
    /\ logs' = logs
    /\ i' = i + 1
    /\ pc' = "loop"
    /\ attempt' = 0
    /\ retry_total' = 0
    /\ UNCHANGED <<img, attached, raised>>

\* except ShopifyError around create_product: the row's error record
OnCreateFailed(status) ==
    /\ logs' = Append(logs, ErrorEntry(i, status))
    /\ i' = i + 1
    /\ pc' = "loop"
    /\ attempt' = 0
    /\ retry_total' = 0
    /\ UNCHANGED <<img, attached, raised>>

\* after create_product returned: update_product_metafields, then the image loop
AfterCreate(pid) ==
    IF SeoPayloadNonEmpty(i + 1)
    THEN /\ pc' = "seo"
         /\ attempt' = 0
         /\ retry_total' = RetryTotal
         /\ UNCHANGED <<i, logs, img, attached, raised>>
    ELSE NextImage(1, logs, pid, 0)

\* one HTTP request of create_product(product_payload)
CreateRequest(resp) ==
    /\ pc = "create"
    /\ LET outcome == Outcome(resp, retry_total)
           pid     == IF resp.has_id THEN "id" ELSE "None"
       IN  /\ called' = called \cup {i}
           /\ CASE outcome = "resend" ->
                     /\ call' = Sent("create", 0, "None", resp, "pending")
                     /\ product_id' = product_id
                     /\ Resend
                [] outcome = "ok" ->
                     /\ call' = Sent("create", 0, "None", resp, "ok")
                     /\ product_id' = pid
                     /\ AfterCreate(pid)
                [] outcome = "ShopifyError" ->
                     /\ product_id' = product_id
                     /\ IF TenacityRetries(outcome, attempt)
                        THEN /\ call' = Sent("create", 0, "None", resp, "pending")
                             /\ Reattempt
                        ELSE /\ call' = Sent("create", 0, "None", resp, outcome)
                             /\ OnCreateFailed(resp.status)
                [] OTHER ->
                     /\ call' = Sent("create", 0, "None", resp, outcome)
                     /\ product_id' = product_id
                     /\ Abort(outcome)
    /\ UNCHANGED <<inputs, images_found>>

\* one HTTP request of api_put in update_product_metafields(product_id, ...)
SeoRequest(resp) ==
    /\ pc = "seo"
    /\ LET outcome == Outcome(resp, retry_total)
       IN  /\ called' = called \cup {i}
           /\ CASE outcome = "resend" ->
                     /\ call' = Sent("seo", 0, product_id, resp, "pending")
                     /\ Resend
                [] outcome = "ok" ->
                     /\ call' = Sent("seo", 0, product_id, resp, "ok")
                     /\ NextImage(1, logs, product_id, 0)
                [] outcome = "ShopifyError" ->
                     /\ call' = Sent("seo", 0, product_id, resp, outcome)
                     /\ NextImage(1, logs, product_id, 0)
                [] OTHER ->
                     /\ call' = Sent("seo", 0, product_id, resp, outcome)
                     /\ Abort(outcome)
    /\ UNCHANGED <<inputs, images_found, product_id>>

\* after a failed image the loop over images_found starts over
OnAttachFailed_Restart(status) ==
    NextImage(1,
              Append(logs, ImageErrorEntry(i, product_id, images_found[img], status)),
              product_id, attached)

\* except ShopifyError around attach_image: the image_error record, then the next image
OnAttachFailed(status) ==
    NextImage(img + 1,
              Append(logs, ImageErrorEntry(i, product_id, images_found[img], status)),
              product_id, attached)

\* one HTTP request of attach_image(product_id, img)
AttachRequest(resp) ==
    /\ pc = "attach"
    /\ LET outcome == Outcome(resp, retry_total)
       IN  /\ called' = called \cup {i}
           /\ CASE outcome = "resend" ->
                     /\ call' = Sent("attach", img, product_id, resp, "pending")
                     /\ Resend
                [] outcome = "ok" ->
                     /\ call' = Sent("attach", img, product_id, resp, "ok")
                     /\ NextImage(img + 1, logs, product_id, attached + 1)
                [] outcome = "ShopifyError" ->
                     IF TenacityRetries(outcome, attempt)
                     THEN /\ call' = Sent("attach", img, product_id, resp, "pending")
                          /\ Reattempt
                     ELSE /\ call' = Sent("attach", img, product_id, resp, outcome)
                          /\ OnAttachFailed(resp.status)
                [] OTHER ->
                     /\ call' = Sent("attach", img, product_id, resp, outcome)
                     /\ Abort(outcome)
    /\ UNCHANGED <<inputs, images_found, product_id>>

\* after the loop: the log is rendered and offered for download
Render ==
    /\ pc = "loop"
    /\ i >= Len(csv_rows)
    /\ pc' = "done"
    /\ UNCHANGED <<inputs, i, logs, images_found, product_id, img, attached, attempt,
                   retry_total, call, called, raised>>

Next ==
    \/ StartRow
    \/ Render
    \/ \E resp \in Responses : CreateRequest(resp)
    \/ \E resp \in Responses : SeoRequest(resp)
    \/ \E resp \in Responses : AttachRequest(resp)

Spec == Init /\ [][Next]_vars

-----------------------------------------------------------------------------
(* Vocabulary of the properties *)

Failures == {"ShopifyError", "RetryError", "ConnectionError"}

Primary(e) == e.status \in {"skipped", "created", "error"}

PrimaryLog == SelectSeq(logs, Primary)

LogEntries == {logs[k] : k \in 1..Len(logs)}

ImageErrorsOf(row) == {k \in 1..Len(logs) : logs[k].status = "image_error" /\ logs[k].row = row}

LastLog == logs[Len(logs)]

\* the title field of the CSV line with label row, as text: empty when the column is absent
TitleField(row) ==
    IF "Titolo Prodotto" \in df_columns THEN csv_rows[row + 1]["Titolo Prodotto"] ELSE <<>>

BlankTitle(row) == Strip(TitleField(row)) = <<>>

Rank(kind) ==
    CASE kind = "create" -> 1
      [] kind = "seo"    -> 2
      [] kind = "attach" -> 3
      [] OTHER           -> 0

-----------------------------------------------------------------------------
(* C1: for create_product and attach_image, a call sends at most 4 requests: *)
(* after 3 failures a 4th attempt is made, and after 4 failed attempts the   *)
(* failure is surfaced to the caller and no 5th attempt is made.             *)
C1_AtMostFourAttempts ==
    call.kind \in {"create", "attach"} =>
        /\ call.http <= StopAfterAttempt
        /\ (call.http = StopAfterAttempt /\ call.result # "ok") => call.result \in Failures

(* C2: no failure of a create, SEO-update or attach-image call (a status    *)
(* >= 400 or a network-level error) aborts the run.                         *)
C2_RunNeverAborts == pc # "aborted"

\* the primary entries are those of the rows processed so far, one each, in order
C3_LogShape ==
    /\ Len(PrimaryLog) = i
    /\ \A k \in 1..Len(PrimaryLog) : PrimaryLog[k].row = k - 1
    /\ \A e \in LogEntries : Primary(e) \/ e.status = "image_error"
    /\ pc = "done" => Len(PrimaryLog) = Len(csv_rows)

C3_AppendOnly == Len(logs') >= Len(logs) /\ SubSeq(logs', 1, Len(logs)) = logs

C4_BlankTitleSkipped ==
    \A row \in 0..(Len(csv_rows) - 1) :
        BlankTitle(row) =>
            /\ row \notin called
            /\ row < i => \E e \in LogEntries : e.row = row /\ e.status = "skipped"

(* C5: the images selected for a row are at most max_images_per_product, a  *)
(* prefix of the matched images, and with a maximum of 0 no image is        *)
(* attached.                                                                *)
C5_SelectionWithinMax ==
    pc \in {"create", "seo", "attach"} =>
        /\ Len(images_found) <= max_images_per_product
        /\ images_found = SubSeq(Matched(i + 1), 1, Len(images_found))
        /\ max_images_per_product = 0 => pc # "attach"

(* C6: when create_product fails for good, the row is logged as error with  *)
(* the failure's status, and the loop moves on to the next row without an   *)
(* SEO update or an image for that row.                                     *)
C6_CreateFailureLogged ==
    (call.kind = "create" /\ call.result \in Failures) =>
        /\ pc \in {"loop", "done"}
        /\ i = call.row + 1
        /\ logs # <<>>
        /\ LastLog = ErrorEntry(call.row, call.status)

(* C7: a failed attach_image appends one image_error record (row, product   *)
(* id, filename, detail) and the loop goes on with the next image; the      *)
(* row's created record counts the images attached, so that count plus the  *)
(* row's image_error records is the number of images selected.              *)
C7_AttachFailureLogged ==
    /\ (call.kind = "attach" /\ call.result \in Failures) =>
          /\ pc # "aborted"
          /\ ImageErrorEntry(call.row, call.pid, images_found[call.img], call.status)
                \in LogEntries
    /\ \A e \in LogEntries :
          e.status = "created" =>
              e.images_attached + Cardinality(ImageErrorsOf(e.row))
                  = Len(ImagesFound(e.row + 1))

(* C8: a failed SEO update leaves the row created: the loop goes on with    *)
(* the first selected image, or with the created record if there is none.   *)
C8_SeoFailureNonFatal ==
    (call.kind = "seo" /\ call.result \in Failures) =>
        \/ pc = "attach" /\ img = 1
        \/ /\ pc \in {"loop", "done"}
           /\ images_found = <<>>
           /\ logs # <<>>
           /\ LastLog = CreatedEntry(call.row, call.pid, 0)

\* what a step that sends an HTTP request may do
C9_RequestStep ==
    (call' # call /\ call'.kind # "none") =>
        /\ call'.row = i
        /\ Len(PrimaryLog) = i
        /\ pc = call'.kind
        /\ IF call.kind = call'.kind /\ call.img = call'.img /\ call.result = "pending"
           THEN call'.http >= call.http
           ELSE /\ call'.http = 1
                /\ call.result # "pending"
                /\ CASE call'.kind = "create" -> call.kind = "none"
                     [] call'.kind = "seo" ->
                          call.kind = "create" /\ call.result = "ok"
                     [] OTHER ->
                          /\ Rank(call.kind) >= 1
                          /\ call.kind = "create" => call.result = "ok"
                          /\ call'.img = (IF call.kind = "attach" THEN call.img + 1 ELSE 1)

(* C9: requests are sent for the row being processed only, after every      *)
(* earlier row has its primary log entry; within a row the create call and  *)
(* its retries come first, then the SEO update, then the images one by one  *)
(* in the order of images_found.                                            *)
C9_Sequential == [][C9_RequestStep]_vars

C9_Witness == call.kind = "attach" /\ call.img = 2 /\ call.row = 1 /\ call.http = 3

(* C10: an SEO update is sent only for a product whose create response      *)
(* carried an id, and only with an SEO title or an SEO description.         *)
C10_SeoOnlyWithId ==
    call.kind = "seo" => call.pid # "None" /\ SeoPayloadNonEmpty(call.row + 1)

====
